---- MODULE Spec2Model ----
(***************************************************************************)
(* Transaction identity and categorisation of the financial assistant.     *)
(*                                                                         *)
(* Python strings are modelled as sequences of string tokens (a token is   *)
(* one character, or a fixed fragment of a repr), so that concatenation is *)
(* \o and a digest can be compared by its input.  A date "YYYY-MM-DD" is   *)
(* the record [year, month, day]; DateStr gives its characters.            *)
(***************************************************************************)
EXTENDS FiniteSets, Integers, Sequences, TLC

\* ------------------------------------------------------------------ bounds
\* longest CSV bank history
MaxBatch == 3
\* longest OFX statement
MaxOfx == 2
\* how often one file is imported / the engine is run on one batch
MaxRuns == 2

\* longest batch handed to determine_transaction_categories
MaxResolve == 2

\* longest batch of a session that follows direct store calls
MaxSession == 1

\* most descriptions in the map handed to build_hints
MaxHintMap == 2

\* most imports and writes made on one database
MaxCalls == 3

\* ------------------------------------------------------------- identity state
VARIABLES
    kind,          \* "csv" | "ofx": the format of the file being imported
    rows,          \* the rows of the CSV file, in file order
    statement,     \* the statement of the OFX file
    transactions,  \* the list of Transaction objects the parser holds
    result,        \* how the last call ended: "none" before the first call
    runs,          \* number of calls made on this input
    store          \* the rows of the transactions table of the database, in
                   \* insertion order

idVars == <<kind, rows, statement, transactions, result, runs, store>>

\* ----------------------------------------------------------- resolution state
VARIABLES
    do_prompt,     \* the argument of determine_transaction_categories
    batch,         \* its transactions argument: description and category
    idx,           \* the position the for loop is at (from 1)
    rpc,           \* "start", "loop", "prompt", "returned", or the exception
                   \* that ended the call
    table,         \* CategoryLookupTable._table
    config,        \* CategoryHinter._config
    tableFile,     \* the lookup table file
    configFile,    \* the hint config file
    options,       \* the options of the prompt being shown
    prompted,      \* positions for which input() was called
    hintCalls,     \* positions for which hinter.hint() was called
    lastInput,     \* what the user typed last at the prompt being shown
    call           \* the last method or function called directly (outside a
                   \* resolution session), with its arguments and outcome

resVars == <<do_prompt, batch, idx, rpc, table, config, tableFile, configFile,
             options, prompted, hintCalls, lastInput, call>>

vars == <<kind, rows, statement, transactions, result, runs,
          do_prompt, batch, idx, rpc, table, config, tableFile, configFile,
          options, prompted, hintCalls, lastInput, call>>

\* ------------------------------------------------------------ string helpers
Digit(d) ==
    CASE d = 0 -> "0" [] d = 1 -> "1" [] d = 2 -> "2" [] d = 3 -> "3"
      [] d = 4 -> "4" [] d = 5 -> "5" [] d = 6 -> "6" [] d = 7 -> "7"
      [] d = 8 -> "8" [] d = 9 -> "9"

RECURSIVE Digits(_)
Digits(n) ==
    IF n < 10 THEN <<Digit(n)>> ELSE Digits(n \div 10) \o <<Digit(n % 10)>>

\* str(int)
IntStr(n) ==
    IF n < 0 THEN <<"-">> \o Digits(-n) ELSE Digits(n)

\* repr(float) of a float with a whole value: 5.0, -5.0
FloatRepr(x) ==
    IntStr(x) \o <<".", "0">>

\* two-digit field of an ISO date
Pad2(n) ==
    IF n < 10 THEN <<"0">> \o Digits(n) ELSE Digits(n)

\* the date string f"{year}-{month}-{day}" / date.isoformat()
DateStr(date) ==
    IntStr(date.year) \o <<"-">> \o Pad2(date.month) \o <<"-">> \o Pad2(date.day)

\* date.split("-")[0]
YearOf(date) ==
    IntStr(date.year)

\* a > b on two ISO date strings (lexicographic, zero padded)
DateGt(a, b) ==
    \/ a.year > b.year
    \/ a.year = b.year /\ a.month > b.month
    \/ a.year = b.year /\ a.month = b.month /\ a.day > b.day

\* repr(str) of a string that holds no quote
StrRepr(s) ==
    <<"'">> \o s \o <<"'">>

RECURSIVE ListItems(_)
ListItems(l) ==
    IF Len(l) = 0 THEN <<>>
    ELSE IF Len(l) = 1 THEN StrRepr(l[1])
    ELSE StrRepr(l[1]) \o <<", ">> \o ListItems(Tail(l))

\* repr(list of str)
ListRepr(l) ==
    <<"[">> \o ListItems(l) \o <<"]">>

IsSpace(c) ==
    c \in {" ", "\t", "\n"}

\* str.split() without argument: the maximal runs of non-whitespace
RECURSIVE SplitWs(_, _)
SplitWs(s, word) ==
    IF Len(s) = 0 THEN (IF Len(word) = 0 THEN <<>> ELSE <<word>>)
    ELSE IF IsSpace(Head(s))
         THEN (IF Len(word) = 0 THEN <<>> ELSE <<word>>) \o SplitWs(Tail(s), <<>>)
         ELSE SplitWs(Tail(s), Append(word, Head(s)))

\* sep.join(words)
RECURSIVE Join(_, _)
Join(sep, words) ==
    IF Len(words) = 0 THEN <<>>
    ELSE IF Len(words) = 1 THEN words[1]
    ELSE words[1] \o sep \o Join(sep, Tail(words))

\* str.strip()
RECURSIVE LStrip(_)
LStrip(s) ==
    IF Len(s) > 0 /\ IsSpace(Head(s)) THEN LStrip(Tail(s)) ELSE s

RECURSIVE RStrip(_)
RStrip(s) ==
    IF Len(s) > 0 /\ IsSpace(s[Len(s)]) THEN RStrip(SubSeq(s, 1, Len(s) - 1)) ELSE s

Strip(s) ==
    LStrip(RStrip(s))

Reversed(l) ==
    [i \in 1..Len(l) |-> l[Len(l) + 1 - i]]

\* --------------------------------------------------------------- Transaction
\* the dataclass; id is a string, "" until an id is known
Transaction(date, description, category, amount, id, tags, balance) ==
    [date |-> date, description |-> description, category |-> category,
     amount |-> amount, id |-> id, tags |-> tags, balance |-> balance]

\* repr of one field, wrong: the id field takes part in the repr
StrWithId(t) ==
    <<"Transaction(date=">> \o StrRepr(DateStr(t.date))
      \o <<", description=">> \o StrRepr(t.description)
      \o <<", category=">> \o <<t.category>>
      \o <<", amount=">> \o FloatRepr(t.amount)
      \o <<", id=">> \o StrRepr(t.id)
      \o <<", tags=">> \o ListRepr(t.tags)
      \o <<", balance=">> \o FloatRepr(t.balance) \o <<")">>

\* repr without the balance field
StrNoBalance(t) ==
    <<"Transaction(date=">> \o StrRepr(DateStr(t.date))
      \o <<", description=">> \o StrRepr(t.description)
      \o <<", category=">> \o <<t.category>>
      \o <<", amount=">> \o FloatRepr(t.amount)
      \o <<", tags=">> \o ListRepr(t.tags) \o <<")">>

\* str(transaction): the generated dataclass repr; id has repr=False
Str(t) ==
    <<"Transaction(date=">> \o StrRepr(DateStr(t.date))
      \o <<", description=">> \o StrRepr(t.description)
      \o <<", category=">> \o <<t.category>>
      \o <<", amount=">> \o FloatRepr(t.amount)
      \o <<", tags=">> \o ListRepr(t.tags)
      \o <<", balance=">> \o FloatRepr(t.balance) \o <<")">>

\* hashlib.md5(...).hexdigest(), taken as collision free: the digest names
\* the bytes it was fed
Md5(bytes) ==
    <<"md5(">> \o bytes \o <<")">>

RECURSIVE Updates(_)
\* the bytes fed by hasher.update(str(x)) for each x of a list of transactions
Updates(ts) ==
    IF Len(ts) = 0 THEN <<>> ELSE Str(ts[1]) \o Updates(Tail(ts))

RECURSIVE ExtraUpdates(_)
\* the bytes fed for extra_inputs (strings here)
ExtraUpdates(extra) ==
    IF Len(extra) = 0 THEN <<>> ELSE extra[1] \o ExtraUpdates(Tail(extra))

hash_transactions(ts, extra_inputs) ==
    Md5(Updates(ts) \o ExtraUpdates(extra_inputs))

\* ------------------------------------------------- _generate_transaction_ids
RECURSIVE SameDayFollowers(_, _, _)
\* the inner loop over transactions[i + 1:], left at the first other date
SameDayFollowers(ts, i, j) ==
    IF j > Len(ts) \/ ts[i].date # ts[j].date THEN <<>>
    ELSE <<ts[j]>> \o SameDayFollowers(ts, i, j + 1)

\* wrong: the transaction is hashed alone
ToHashAlone(ts, i) ==
    <<ts[i]>>

\* wrong: the run is chained backward, from its first transaction to i
RECURSIVE SameDayLeaders(_, _, _)
SameDayLeaders(ts, i, j) ==
    IF j < 1 \/ ts[i].date # ts[j].date THEN <<>>
    ELSE SameDayLeaders(ts, i, j - 1) \o <<ts[j]>>

ToHashBackward(ts, i) ==
    SameDayLeaders(ts, i, i - 1) \o <<ts[i]>>

\* wrong: every transaction that follows is hashed with it
ToHashRest(ts, i) ==
    SubSeq(ts, i, Len(ts))

transactions_to_hash(ts, i) ==
    <<ts[i]>> \o SameDayFollowers(ts, i, i + 1)

RECURSIVE SetIds(_, _)
\* the outer loop: transaction.id = hash_transactions(transactions_to_hash)
SetIds(ts, i) ==
    IF i > Len(ts) THEN ts
    ELSE SetIds([ts EXCEPT ![i].id =
                    hash_transactions(transactions_to_hash(ts, i), <<>>)], i + 1)

Ids(ts) ==
    {ts[i].id : i \in 1..Len(ts)}

\* wrong: no post condition
NoPostCondition(hashes, ts) ==
    TRUE

\* assert len(hashes) == len(transactions)
PostCondition(hashes, ts) ==
    Cardinality(hashes) = Len(ts)

\* the call: the list as the loop left it, and how the call ended
generate_transaction_ids(ts) ==
    LET out == SetIds(ts, 1) IN
    [transactions |-> out,
     result |-> IF PostCondition(Ids(out), out) THEN "returned" ELSE "AssertionError"]

\* ------------------------------------------------------------------ _parse_csv
\* " ".join(row["Description"].split())
NormalizeDescription(s) ==
    Join(<<" ">>, SplitWs(s, <<>>))

RowTransaction(row, year, name) ==
    Transaction(row.date, NormalizeDescription(row.description), "Bank",
                row.amount, <<>>, <<year, name>>, row.balance)

SingleYear(ts) ==
    \A i \in 1..Len(ts) : YearOf(ts[i].date) = YearOf(ts[1].date)

\* wrong: the ids are generated before the years are compared
parse_csv_ids_first(file, year, name) ==
    LET parsed == [i \in 1..Len(file) |-> RowTransaction(file[i], year, name)]
    IN  IF Len(parsed) = 0
        THEN [transactions |-> parsed, result |-> "IndexError"]
        ELSE LET ordered == IF DateGt(parsed[1].date, parsed[Len(parsed)].date)
                            THEN Reversed(parsed) ELSE parsed
                 out == generate_transaction_ids(ordered)
             IN  IF out.result = "returned" /\ ~SingleYear(ordered)
                 THEN [transactions |-> out.transactions,
                       result |-> "NotImplementedError"]
                 ELSE out

parse_csv(file, year, name) ==
    LET parsed == [i \in 1..Len(file) |-> RowTransaction(file[i], year, name)]
    IN  IF Len(parsed) = 0
        THEN [transactions |-> parsed, result |-> "IndexError"]
        ELSE LET ordered == IF DateGt(parsed[1].date, parsed[Len(parsed)].date)
                            THEN Reversed(parsed) ELSE parsed
             IN  IF ~SingleYear(ordered)
                 THEN [transactions |-> ordered, result |-> "NotImplementedError"]
                 ELSE generate_transaction_ids(ordered)

\* ------------------------------------------------------------------- parse_ofx
IGNORED_TRANSACTION_KEYS ==
    { <<"A","U","T","O"," ","P","A","Y","M","E","N","T">>,
      <<"A","U","T","O","M","A","T","I","C"," ","P","A","Y","M","E","N","T"," ","-"," ","T","H","A","N","K">>,
      <<"A","U","T","O","P","A","Y"," ","P","A","Y","M","E","N","T"," ","-"," ","T","H","A","N","K"," ","Y","O","U">>,
      <<"A","U","T","O","P","A","Y"," ","P","A","Y","M","E","N","T"," ","T","H","A","N","K"," ","Y","O","U">>,
      <<"M","O","B","I","L","E"," ","P","A","Y","M","E","N","T"," ","T","H","A","N","K"," ","Y","O","U">>,
      <<"M","O","B","I","L","E"," ","P","A","Y","M","E","N","T"," ","-"," ","T","H","A","N","K"," ","Y","O","U">>,
      <<"P","a","y","m","e","n","t"," ","T","h","a","n","k"," ","Y","o","u"," ","-"," ","W","e","b">>,
      <<"P","a","y","m","e","n","t"," ","T","h","a","n","k"," ","Y","o","u","-","M","o","b","i","l","e">> }

\* wrong: the FITID is preferred
parse_id_fitid_first(t) ==
    IF Len(t.fitid) > 0 THEN t.fitid ELSE t.refnum

\* transaction.refnum or transaction.fitid; an absent REFNUM is falsy
parse_id(t) ==
    IF Len(t.refnum) > 0 THEN t.refnum ELSE t.fitid

RECURSIVE OfxLoop(_, _, _)
\* the loop over statements[0].transactions: skip the ignored, append, and
\* replace the id of the appended transaction by the salted digest
OfxLoop(raw, category, tags) ==
    IF Len(raw) = 0 THEN <<>>
    ELSE IF Strip(raw[1].name) \in IGNORED_TRANSACTION_KEYS
         THEN OfxLoop(Tail(raw), category, tags)
         ELSE LET t == Transaction(raw[1].date, raw[1].name, category,
                                   raw[1].trnamt, parse_id(raw[1]), tags, 0)
              IN  <<[t EXCEPT !.id = hash_transactions(<<t>>, <<t.id>>)]>>
                    \o OfxLoop(Tail(raw), category, tags)

RECURSIVE SetBalances(_, _, _)
\* for transaction in reversed(transactions): balance is set, then reduced
SetBalances(ts, i, balance) ==
    IF i < 1 THEN ts
    ELSE SetBalances([ts EXCEPT ![i].balance = balance], i - 1,
                     balance - ts[i].amount)

\* availbal is <<>> when the statement has none, <<amount>> otherwise
parse_ofx(stmt, category, tags) ==
    LET ts == OfxLoop(stmt.transactions, category, tags)
    IN  IF Len(stmt.availbal) = 0 THEN ts
        ELSE SetBalances(ts, Len(ts), stmt.availbal[1])

\* bank_history_parser._parse_ofx: the transactions of the file's year
bank_parse_ofx(stmt, year, name) ==
    SelectSeq(parse_ofx(stmt, "Bank", <<year, name>>),
              LAMBDA t : YearOf(t.date) = year)

\* ---------------------------------------------------------------- the inputs
\* the file is <YEAR>_<NAME>.<EXT>
FileYear == <<"2", "0", "2", "1">>
FileName == <<"b", "k">>

Date(y, m, d) == [year |-> y, month |-> m, day |-> d]

Dates == {Date(2021, 1, 1), Date(2021, 1, 2), Date(2022, 1, 1)}

\* "a  b" is normalised to "a b"
CsvDescriptions == {<<"a", " ", " ", "b">>, <<"c">>}

CsvRows ==
    [date : Dates, description : CsvDescriptions, amount : {5}, balance : {5}]

OfxNames == {<<"c">>, <<" ", "A", "U", "T", "O", " ", "P", "A", "Y", "M", "E", "N", "T">>}

OfxTransactions ==
    [date : {Date(2021, 1, 1), Date(2022, 1, 1)}, name : OfxNames, trnamt : {-5},
     refnum : {<<>>, <<"r">>}, fitid : {<<"f">>, <<"g">>}]

SeqsUpTo(S, n) ==
    UNION {[1..k -> S] : k \in 0..n}

OfxStatements ==
    [transactions : SeqsUpTo(OfxTransactions, MaxOfx), availbal : {<<>>, <<7>>}]

NoStatement == [transactions |-> <<>>, availbal |-> <<>>]


\* ==================================================== category resolution
\* list(Category)
Categories ==
    <<"Unknown", "Automotive", "BillsUtilities", "Education", "Entertainment",
      "FeesAdjustments", "Food", "Gas", "Gifts", "Groceries", "Health", "Home",
      "Miscellaneous", "Personal", "ProfessionalServices", "Shopping", "Travel">>

\* a dict: a function on its keys
EmptyMap == <<>>

Keys(map) == DOMAIN map

\* map[key] = value
MapStore(map, key, value) ==
    [k \in DOMAIN map \cup {key} |-> IF k = key THEN value ELSE map[k]]

\* the characters of the model, in code point order
CodePoints ==
    <<"\t", "\n", " ", "&", "-",
      "0", "1", "2", "3", "4", "5", "6", "7", "8", "9",
      "A", "B", "C", "D", "E", "F", "G", "H", "I", "J", "K", "L", "M", "N", "O",
      "P", "Q", "R", "S", "T", "U", "V", "W", "X", "Y", "Z",
      "a", "b", "c", "d", "e", "f", "g", "h", "i", "j", "k", "l", "m", "n", "o",
      "p", "q", "r", "s", "t", "u", "v", "w", "x", "y", "z">>

Ord(c) ==
    CHOOSE i \in 1..Len(CodePoints) : CodePoints[i] = c

\* a < b on two str
RECURSIVE StrLt(_, _)
StrLt(a, b) ==
    IF Len(b) = 0 THEN FALSE
    ELSE IF Len(a) = 0 THEN TRUE
    ELSE IF Head(a) = Head(b) THEN StrLt(Tail(a), Tail(b))
    ELSE Ord(Head(a)) < Ord(Head(b))

\* sorted(keys)
RECURSIVE SortedKeys(_)
SortedKeys(keys) ==
    IF keys = {} THEN <<>>
    ELSE LET first == CHOOSE k \in keys : \A o \in keys \ {k} : StrLt(k, o)
         IN  <<first>> \o SortedKeys(keys \ {first})

\* wrong: the scalar holds str(member), `Category.<name>`
to_yaml_str(category) ==
    [tag |-> "!Category", value |-> <<"Category.", category>>]

\* Category.to_yaml: the scalar node `!Category <name>`
to_yaml(category) ==
    [tag |-> "!Category", value |-> <<category>>]

\* Category.from_yaml: Category[node.value], KeyError when no member has
\* that name
from_yaml(node) ==
    IF \E i \in 1..Len(Categories) : <<Categories[i]>> = node.value
    THEN node.value[1]
    ELSE "KeyError"

\* the text of a file that was opened for writing and closed
EmptyDocument == [kind |-> "empty", entries |-> <<>>]

\* yaml.dump(mapping, path): `{}` for an empty dict, else one `key: value`
\* line per item, keys sorted
yaml_dump(map) ==
    IF Keys(map) = {} THEN [kind |-> "flow", entries |-> <<>>]
    ELSE LET keys == SortedKeys(Keys(map))
         IN  [kind |-> "block",
              entries |-> [i \in 1..Len(keys) |->
                              [key |-> keys[i], node |-> to_yaml(map[keys[i]])]]]

\* yaml.load(path) of a document that is not empty
yaml_load(document) ==
    LET entries == document.entries
    IN  [k \in {entries[i].key : i \in 1..Len(entries)} |->
            from_yaml(entries[CHOOSE i \in 1..Len(entries) : entries[i].key = k].node)]

\* a file: absent, or the text written into it
NoFile == [exists |-> FALSE, data |-> EmptyDocument]

FileOf(map) == [exists |-> TRUE, data |-> yaml_dump(map)]

\* if not config_path.exists(): with config_path.open("w"): pass
Created(file) ==
    IF file.exists THEN file ELSE [exists |-> TRUE, data |-> EmptyDocument]

\* __init__: the mapping loaded from the file (created empty if absent);
\* yaml.load of an empty document is None, replaced by {}
LoadFile(file) ==
    IF Created(file).data.kind = "empty" THEN EmptyMap
    ELSE yaml_load(Created(file).data)

\* flush: yaml.dump of the mapping
Flush(map) ==
    FileOf(map)

Alnum ==
    {"a", "b", "c", "d", "e", "f", "g", "h", "i", "j", "k", "l", "m", "n", "o",
     "p", "q", "r", "s", "t", "u", "v", "w", "x", "y", "z",
     "A", "B", "C", "D", "E", "F", "G", "H", "I", "J", "K", "L", "M", "N", "O",
     "P", "Q", "R", "S", "T", "U", "V", "W", "X", "Y", "Z",
     "0", "1", "2", "3", "4", "5", "6", "7", "8", "9"}

\* str.isalnum of one character
IsAlnum(c) ==
    c \in Alnum

\* c if isalnum(c) or isspace(c) or c == "&" else " "
Sanitize(s) ==
    [i \in 1..Len(s) |->
        IF IsAlnum(s[i]) \/ IsSpace(s[i]) \/ s[i] = "&" THEN s[i] ELSE " "]

\* str.split(" "): cut at every space, empty pieces kept
RECURSIVE SplitSpace(_, _)
SplitSpace(s, word) ==
    IF Len(s) = 0 THEN <<word>>
    ELSE IF Head(s) = " " THEN <<word>> \o SplitSpace(Tail(s), <<>>)
    ELSE SplitSpace(Tail(s), Append(word, Head(s)))

is_valid_word(w) ==
    /\ Len(w) > 0
    /\ \A i \in 1..Len(w) : IsAlnum(w[i]) \/ w[i] = "&"
    /\ w # <<"&">>

\* CategoryHinter._split_description
split_description(description) ==
    SelectSeq(SplitSpace(Sanitize(description), <<>>), is_valid_word)

\* wrong: every occurrence of a keyword adds an item
OrderedStoreAppend(items, word, category) ==
    Append(items, <<word, category>>)

\* category_map[word] = category on an insertion-ordered dict, kept as the
\* list of its items
OrderedStore(items, word, category) ==
    IF \E i \in 1..Len(items) : items[i][1] = word
    THEN [i \in 1..Len(items) |->
             IF items[i][1] = word THEN <<word, category>> ELSE items[i]]
    ELSE Append(items, <<word, category>>)

RECURSIVE HintLoop(_, _, _)
HintLoop(cfg, words, items) ==
    IF Len(words) = 0 THEN items
    ELSE HintLoop(cfg, Tail(words),
                  IF Head(words) \in Keys(cfg)
                  THEN OrderedStore(items, Head(words), cfg[Head(words)])
                  ELSE items)

\* CategoryHinter.hint: the items of the returned dict, in order
hint(cfg, description) ==
    HintLoop(cfg, split_description(description), <<>>)

SKIP_KEYWORD == <<"S", "K", "I", "P">>

\* wrong: the categories are listed before the hints
PromptOptionsCategoriesFirst(cfg, description) ==
    LET hints == hint(cfg, description)
    IN  <<<<"Unknown", SKIP_KEYWORD>>>>
          \o [i \in 1..Len(Categories) |-> <<Categories[i], <<>>>>]
          \o [i \in 1..Len(hints) |-> <<hints[i][2], hints[i][1]>>]

\* the options list of _prompt_user_for_category: (category, word) pairs
PromptOptions(cfg, description) ==
    LET hints == hint(cfg, description)
    IN  <<<<"Unknown", SKIP_KEYWORD>>>>
          \o [i \in 1..Len(hints) |-> <<hints[i][2], hints[i][1]>>]
          \o [i \in 1..Len(Categories) |-> <<Categories[i], <<>>>>]

DigitValue(c) ==
    CASE c = "0" -> 0 [] c = "1" -> 1 [] c = "2" -> 2 [] c = "3" -> 3
      [] c = "4" -> 4 [] c = "5" -> 5 [] c = "6" -> 6 [] c = "7" -> 7
      [] c = "8" -> 8 [] c = "9" -> 9

IsDigits(s) ==
    Len(s) > 0 /\ \A i \in 1..Len(s) : s[i] \in {"0", "1", "2", "3", "4", "5", "6", "7", "8", "9"}

RECURSIVE DigitsValue(_)
DigitsValue(s) ==
    IF Len(s) = 0 THEN 0
    ELSE 10 * DigitsValue(SubSeq(s, 1, Len(s) - 1)) + DigitValue(s[Len(s)])

\* int(option) raises ValueError
IntFails(text) ==
    ~(IsDigits(text) \/ (Len(text) > 1 /\ Head(text) = "-" /\ IsDigits(Tail(text))))

\* int(option)
IntOf(text) ==
    IF Head(text) = "-" THEN 0 - DigitsValue(Tail(text)) ELSE DigitsValue(text)

\* options[k] of a Python list: position (from 1) of index k, 0 for IndexError
ListIndex(n, k) ==
    IF k >= 0 /\ k < n THEN k + 1
    ELSE IF k < 0 /\ k >= 0 - n THEN n + k + 1
    ELSE 0

\* CategoryHinter.store raises
HinterStoreRejects(key) ==
    \E i \in 1..Len(key) : key[i] = " "

\* wrong: Unknown is stored like any category
TableStoreAcceptsAll(category) ==
    FALSE

\* CategoryLookupTable.store raises
TableStoreRejects(category) ==
    category = "Unknown"

NoInput == <<"(", "n", "o", "n", "e", ")">>

NoCall == [op |-> "none", key |-> <<>>, category |-> "Unknown", raised |-> FALSE]

\* wrong: the tables are flushed only when the block ends without exception
ExitSessionFlushOnReturn(how) ==
    /\ tableFile' = IF how = "returned" THEN Flush(table') ELSE tableFile
    /\ configFile' = IF how = "returned" THEN Flush(config') ELSE configFile
    /\ rpc' = how

\* wrong: the hinter leaves the block without flushing
ExitSessionTableOnly(how) ==
    /\ tableFile' = Flush(table')
    /\ configFile' = configFile
    /\ rpc' = how

\* the with statement is left: both tables are flushed
ExitSession(how) ==
    /\ tableFile' = Flush(table')
    /\ configFile' = Flush(config')
    /\ rpc' = how

\* ------------------------------------------------------------------ the inputs
\* "ab cd" and "SKIP-ab": the second holds the word the skip option is
\* marked with
Descriptions == {<<"a", "b", " ", "c", "d">>, <<"S", "K", "I", "P", "-", "a", "b">>}

Keywords == {<<"a", "b">>, SKIP_KEYWORD}

MapsInto(keys, values) ==
    UNION {[ks -> values] : ks \in SUBSET keys}

LookupFiles ==
    {NoFile} \cup {FileOf(m) : m \in MapsInto(Descriptions, {"Groceries"})}

HintFiles ==
    {NoFile} \cup {FileOf(m) : m \in MapsInto(Keywords, {"Food"})}

Batches ==
    SeqsUpTo([description : Descriptions, category : {"Unknown", "Shopping"}],
             MaxResolve)

\* what the user may type at a prompt with n options: every index from
\* -(n + 1) to n, the empty line, and a line that is no number
UserInputs(n) ==
    {IntStr(k) : k \in (0 - n - 1)..n} \cup {<<>>, <<"x">>}

ResolutionIdle ==
    /\ do_prompt = FALSE
    /\ batch = <<>>
    /\ idx = 0
    /\ rpc = "idle"
    /\ table = EmptyMap
    /\ config = EmptyMap
    /\ tableFile = NoFile
    /\ configFile = NoFile
    /\ options = <<>>
    /\ prompted = {}
    /\ hintCalls = {}
    /\ lastInput = NoInput
    /\ call = NoCall

IdentityIdle ==
    /\ kind = "none"
    /\ rows = <<>>
    /\ statement = NoStatement
    /\ transactions = <<>>
    /\ result = "none"
    /\ runs = 0
    /\ store = <<>>

\* -------------------------------------------- actions of the resolution
InitResolve ==
    /\ IdentityIdle
    /\ do_prompt \in BOOLEAN
    /\ batch \in Batches
    /\ idx = 0
    /\ rpc = "start"
    /\ table = EmptyMap
    /\ config = EmptyMap
    /\ tableFile \in LookupFiles
    /\ configFile \in HintFiles
    /\ options = <<>>
    /\ prompted = {}
    /\ hintCalls = {}
    /\ lastInput = NoInput
    /\ call = NoCall

\* determine_transaction_categories is called: both tables are constructed
\* from their files and the loop is entered
Call ==
    /\ rpc = "start"
    /\ table' = LoadFile(tableFile)
    /\ config' = LoadFile(configFile)
    /\ tableFile' = Created(tableFile)
    /\ configFile' = Created(configFile)
    /\ idx' = 1
    /\ rpc' = "loop"
    /\ UNCHANGED <<do_prompt, batch, options, prompted, hintCalls, lastInput>>
    /\ UNCHANGED call
    /\ UNCHANGED idVars

\* wrong: in interactive mode the lookup table is not consulted
LookupHitNotWhenPrompting(tbl, description) ==
    description \in Keys(tbl) /\ ~do_prompt

\* if category := table.load(transaction.description)
LookupHit(tbl, description) ==
    description \in Keys(tbl)

\* wrong: the prompt is shown whatever do_prompt is
AlwaysPrompt(flag) ==
    TRUE

\* if do_prompt
WantsPrompt(flag) ==
    flag

\* one iteration of the loop, up to `continue`, to input(), or to its end
Step ==
    /\ rpc = "loop"
    /\ idx <= Len(batch)
    /\ LET description == batch[idx].description IN
       IF LookupHit(table, description)
       THEN /\ batch' = [batch EXCEPT ![idx].category = table[description]]
            /\ idx' = idx + 1
            /\ UNCHANGED <<rpc, options, prompted, hintCalls>>
       ELSE IF WantsPrompt(do_prompt)
       THEN /\ options' = PromptOptions(config, description)
            /\ hintCalls' = hintCalls \cup {idx}
            /\ prompted' = prompted \cup {idx}
            /\ rpc' = "prompt"
            /\ UNCHANGED <<batch, idx>>
       ELSE /\ idx' = idx + 1
            /\ UNCHANGED <<batch, rpc, options, prompted, hintCalls>>
    /\ lastInput' = NoInput
    /\ UNCHANGED <<do_prompt, table, config, tableFile, configFile>>
    /\ UNCHANGED call
    /\ UNCHANGED idVars

\* wrong: skipping is stored like a choice
IsSkipNever(word) ==
    FALSE

\* if word == SKIP_KEYWORD
IsSkip(word) ==
    word = SKIP_KEYWORD

\* the user types a line at the prompt
Answer ==
    /\ rpc = "prompt"
    /\ \E text \in UserInputs(Len(options)) :
        /\ lastInput' = text
        /\ IF IntFails(text)
           THEN \* ValueError is caught: the same prompt is shown again
                UNCHANGED <<batch, idx, rpc, table, config, tableFile,
                            configFile, options, prompted>>
           ELSE LET pos == ListIndex(Len(options), IntOf(text)) IN
                IF pos = 0
                THEN \* IndexError is not caught
                     /\ UNCHANGED <<batch, idx, table, config, options, prompted>>
                     /\ ExitSession("IndexError")
                ELSE LET category == options[pos][1]
                         word == options[pos][2]
                         description == batch[idx].description
                     IN
                     IF IsSkip(word)
                     THEN /\ batch' = [batch EXCEPT ![idx].category = category]
                          /\ idx' = idx + 1
                          /\ rpc' = "loop"
                          /\ options' = <<>>
                          /\ UNCHANGED <<table, config, tableFile, configFile, prompted>>
                     ELSE IF Len(word) > 0 /\ HinterStoreRejects(word)
                     THEN /\ UNCHANGED <<batch, idx, table, config, options, prompted>>
                          /\ ExitSession("RuntimeError")
                     ELSE /\ config' = IF Len(word) > 0
                                       THEN MapStore(config, word, category)
                                       ELSE config
                          /\ IF TableStoreRejects(category)
                             THEN /\ UNCHANGED <<batch, idx, table, options, prompted>>
                                  /\ ExitSession("RuntimeError")
                             ELSE /\ table' = MapStore(table, description, category)
                                  /\ batch' = [batch EXCEPT ![idx].category = category]
                                  /\ idx' = idx + 1
                                  /\ rpc' = "loop"
                                  /\ options' = <<>>
                                  /\ UNCHANGED <<tableFile, configFile, prompted>>
    /\ UNCHANGED <<do_prompt, hintCalls>>
    /\ UNCHANGED call
    /\ UNCHANGED idVars

\* Ctrl-C at input(): KeyboardInterrupt leaves the with statement
Interrupt ==
    /\ rpc = "prompt"
    /\ UNCHANGED <<do_prompt, batch, idx, table, config, options, prompted,
                   hintCalls, lastInput>>
    /\ ExitSession("KeyboardInterrupt")
    /\ UNCHANGED call
    /\ UNCHANGED idVars

\* the loop is over: the with statement is left and the list returned
Return ==
    /\ rpc = "loop"
    /\ idx > Len(batch)
    /\ UNCHANGED <<do_prompt, batch, idx, table, config, options, prompted,
                   hintCalls, lastInput>>
    /\ ExitSession("returned")
    /\ UNCHANGED call
    /\ UNCHANGED idVars

NextResolve ==
    \/ Call
    \/ Step
    \/ Answer
    \/ Interrupt
    \/ Return

SpecResolve == InitResolve /\ [][NextResolve]_vars

\* ------------------------------------- the two tables used directly
\* keys handed to CategoryHinter.store: one word, two words, a word with a tab
StoreKeys == {<<"a", "b">>, <<"a", " ", "b">>, <<"a", "\t", "b">>}

HinterCategories == {"Food"}

TableCategories == {"Unknown", "Shopping"}

SessionBatches ==
    {b \in Batches : Len(b) <= MaxSession}

\* both table objects have been constructed on their paths
InitTables ==
    /\ IdentityIdle
    /\ do_prompt = FALSE
    /\ batch = <<>>
    /\ idx = 0
    /\ rpc = "open"
    /\ \E file \in LookupFiles : tableFile = Created(file) /\ table = LoadFile(file)
    /\ \E file \in HintFiles : configFile = Created(file) /\ config = LoadFile(file)
    /\ options = <<>>
    /\ prompted = {}
    /\ hintCalls = {}
    /\ lastInput = NoInput
    /\ call = NoCall

\* CategoryHinter.store(key, category)
HinterStore ==
    /\ rpc = "open"
    /\ \E key \in StoreKeys, category \in HinterCategories :
        /\ call' = [op |-> "hinter.store", key |-> key, category |-> category,
                    raised |-> HinterStoreRejects(key)]
        /\ config' = IF HinterStoreRejects(key) THEN config
                     ELSE MapStore(config, key, category)
    /\ UNCHANGED <<do_prompt, batch, idx, rpc, table, tableFile, configFile,
                   options, prompted, hintCalls, lastInput>>
    /\ UNCHANGED idVars

\* CategoryLookupTable.store(key, category)
TableStore ==
    /\ rpc = "open"
    /\ \E key \in Descriptions, category \in TableCategories :
        /\ call' = [op |-> "table.store", key |-> key, category |-> category,
                    raised |-> TableStoreRejects(category)]
        /\ table' = IF TableStoreRejects(category) THEN table
                    ELSE MapStore(table, key, category)
    /\ UNCHANGED <<do_prompt, batch, idx, rpc, config, tableFile, configFile,
                   options, prompted, hintCalls, lastInput>>
    /\ UNCHANGED idVars

\* flush() of both objects, which are not used afterwards
FlushTables ==
    /\ rpc = "open"
    /\ tableFile' = Flush(table)
    /\ configFile' = Flush(config)
    /\ rpc' = "closed"
    /\ call' = NoCall
    /\ UNCHANGED <<do_prompt, batch, idx, table, config, options, prompted,
                   hintCalls, lastInput>>
    /\ UNCHANGED idVars

\* new objects are constructed on the same paths: after a flush they are
\* used for further store calls, after a session they are only looked at
Construct ==
    /\ rpc \in {"closed", "returned", "KeyboardInterrupt", "IndexError", "RuntimeError"}
    /\ table' = LoadFile(tableFile)
    /\ config' = LoadFile(configFile)
    /\ tableFile' = Created(tableFile)
    /\ configFile' = Created(configFile)
    /\ rpc' = IF rpc = "closed" THEN "open" ELSE "reopened"
    /\ do_prompt' = FALSE
    /\ batch' = <<>>
    /\ idx' = 0
    /\ options' = <<>>
    /\ prompted' = {}
    /\ hintCalls' = {}
    /\ lastInput' = NoInput
    /\ call' = NoCall
    /\ UNCHANGED idVars

\* determine_transaction_categories is about to be called on the flushed files
StartSession ==
    /\ rpc = "closed"
    /\ do_prompt' \in BOOLEAN
    /\ batch' \in SessionBatches
    /\ rpc' = "start"
    /\ UNCHANGED <<idx, table, config, tableFile, configFile, options, prompted,
                   hintCalls, lastInput, call>>
    /\ UNCHANGED idVars

NextTables ==
    \/ HinterStore
    \/ TableStore
    \/ FlushTables
    \/ Construct
    \/ StartSession
    \/ Call
    \/ Step
    \/ Answer
    \/ Interrupt
    \/ Return

SpecTables == InitTables /\ [][NextTables]_vars

\* ------------------------------------------- the hinter used directly
\* criteria(word): not a single letter, and tagged as a noun; the tagger is
\* an outside library, here the set of words it tags NN*
criteria(word, nouns) ==
    Len(word) > 1 /\ word \in nouns

\* for word in self._split_description(description): hints[word] = category
RECURSIVE WordsLoop(_, _, _, _)
WordsLoop(words, category, nouns, hints) ==
    IF Len(words) = 0 THEN hints
    ELSE WordsLoop(Tail(words), category, nouns,
                   IF criteria(Head(words), nouns)
                   THEN MapStore(hints, Head(words), category)
                   ELSE hints)

\* for description, category in description_category_map.items()
RECURSIVE DescriptionsLoop(_, _, _)
DescriptionsLoop(items, nouns, hints) ==
    IF Len(items) = 0 THEN hints
    ELSE DescriptionsLoop(Tail(items), nouns,
                          WordsLoop(split_description(items[1][1]), items[1][2],
                                    nouns, hints))

\* the number build_hints prints as new
NewHints(cfg, hints) ==
    Cardinality({word \in Keys(hints) : word \notin Keys(cfg)})

\* wrong: a key the config already has keeps its category
MergeKeepOld(cfg, hints) ==
    [k \in Keys(cfg) \cup Keys(hints) |->
        IF k \in Keys(cfg) THEN cfg[k] ELSE hints[k]]

\* self._config |= hints
Merge(cfg, hints) ==
    [k \in Keys(cfg) \cup Keys(hints) |->
        IF k \in Keys(hints) THEN hints[k] ELSE cfg[k]]

\* descriptions handed to _split_description and hint
HinterDescriptions ==
    {<<"P", "G", " ", "&", " ", "E">>, <<"P", "G", "&", "E">>,
     <<"a", "b", "\t", "c", "d">>, <<"A", "B", " ", "a", "b", "-", "a", "b">>,
     <<"S", "K", "I", "P", " ", " ", "a", "b">>}

\* descriptions of a map handed to build_hints
BuildDescriptions ==
    {<<"a", "b", " ", "c">>, <<"a", "b", " ", "c", "d">>}

BuildCategories == {"Gas", "Home"}

\* the items of description_category_map: a dict, so no description twice
BuildMaps ==
    {items \in SeqsUpTo(BuildDescriptions \X BuildCategories, MaxHintMap) :
        \A i, j \in 1..Len(items) : i # j => items[i][1] # items[j][1]}

\* what the tagger may tag as nouns
NounSets ==
    {{}, {<<"a", "b">>, <<"c">>}, {<<"a", "b">>, <<"c">>, <<"c", "d">>}}

\* a CategoryHinter has been constructed on its path
InitHinter ==
    /\ IdentityIdle
    /\ do_prompt = FALSE
    /\ batch = <<>>
    /\ idx = 0
    /\ rpc = "open"
    /\ table = EmptyMap
    /\ tableFile = NoFile
    /\ \E file \in HintFiles : configFile = Created(file) /\ config = LoadFile(file)
    /\ options = <<>>
    /\ prompted = {}
    /\ hintCalls = {}
    /\ lastInput = NoInput
    /\ call = NoCall

\* hinter._split_description(description)
SplitDescription ==
    /\ rpc = "open"
    /\ \E description \in HinterDescriptions :
        call' = [op |-> "_split_description", key |-> description,
                 result |-> split_description(description)]
    /\ UNCHANGED <<do_prompt, batch, idx, rpc, table, config, tableFile,
                   configFile, options, prompted, hintCalls, lastInput>>
    /\ UNCHANGED idVars

\* hinter.hint(description)
Hint ==
    /\ rpc = "open"
    /\ \E description \in HinterDescriptions :
        call' = [op |-> "hint", key |-> description,
                 result |-> hint(config, description)]
    /\ UNCHANGED <<do_prompt, batch, idx, rpc, table, config, tableFile,
                   configFile, options, prompted, hintCalls, lastInput>>
    /\ UNCHANGED idVars

\* hinter.build_hints(description_category_map, do_flush)
BuildHints ==
    /\ rpc = "open"
    /\ \E items \in BuildMaps, nouns \in NounSets, do_flush \in BOOLEAN :
        LET hints == DescriptionsLoop(items, nouns, EmptyMap) IN
        /\ call' = [op |-> "build_hints", key |-> items, nouns |-> nouns,
                    do_flush |-> do_flush, n |-> NewHints(config, hints)]
        /\ config' = Merge(config, hints)
        /\ configFile' = IF do_flush THEN FileOf(config') ELSE configFile
    /\ UNCHANGED <<do_prompt, batch, idx, rpc, table, tableFile, options,
                   prompted, hintCalls, lastInput>>
    /\ UNCHANGED idVars

\* the with statement of the hinter is left: __exit__ flushes
HinterExit ==
    /\ rpc = "open"
    /\ configFile' = Flush(config)
    /\ rpc' = "closed"
    /\ UNCHANGED <<do_prompt, batch, idx, table, config, tableFile, options,
                   prompted, hintCalls, lastInput, call>>
    /\ UNCHANGED idVars

NextHinter ==
    \/ SplitDescription
    \/ Hint
    \/ BuildHints
    \/ HinterExit

SpecHinter == InitHinter /\ [][NextHinter]_vars

\* --------------------------------------------- split_transactions_by_month
\* calendar.month_name[1:]
MonthNames ==
    <<"January", "February", "March", "April", "May", "June", "July",
      "August", "September", "October", "November", "December">>

\* f"{year}-{str(ii).zfill(2)}-{suffix}" with the suffix ""
date_pattern(year, ii) ==
    year \o <<"-">> \o Pad2(ii) \o <<"-">>

\* str.startswith
StartsWith(s, prefix) ==
    Len(s) >= Len(prefix) /\ SubSeq(s, 1, Len(prefix)) = prefix

\* the positions whose date starts with the pattern
Matches(ts, pattern) ==
    {i \in 1..Len(ts) : StartsWith(DateStr(ts[i].date), pattern)}

\* the inner loop: the first match ...
start_idx(ts, pattern) ==
    CHOOSE i \in Matches(ts, pattern) : \A k \in Matches(ts, pattern) : i <= k

\* ... and the last match before the break at the first other date after it
end_idx(ts, pattern) ==
    CHOOSE e \in start_idx(ts, pattern)..Len(ts) :
        /\ \A k \in start_idx(ts, pattern)..e : k \in Matches(ts, pattern)
        /\ e = Len(ts) \/ (e + 1) \notin Matches(ts, pattern)

\* transactions[start_idx : end_idx + 1]
month_transactions(ts, pattern) ==
    SubSeq(ts, start_idx(ts, pattern), end_idx(ts, pattern))

MonthNumber(month) ==
    CHOOSE ii \in 1..Len(MonthNames) : MonthNames[ii] = month

\* the dict the loop over _month_iterator builds
transactions_by_month(ts, year) ==
    [month \in {MonthNames[ii] : ii \in {k \in 1..Len(MonthNames) :
                                        Matches(ts, date_pattern(year, k)) # {}}}
        |-> month_transactions(ts, date_pattern(year, MonthNumber(month)))]

RECURSIVE SumLen(_, _)
\* sum(len(ts) for ts in transactions_by_month.values())
SumLen(buckets, months) ==
    IF months = {} THEN 0
    ELSE LET month == CHOOSE m \in months : TRUE
         IN  Len(buckets[month]) + SumLen(buckets, months \ {month})

split_transactions_by_month(ts) ==
    IF Len(ts) = 0 \/ ~SingleYear(ts)
    THEN [result |-> "ValueError", buckets |-> EmptyMap]
    ELSE LET buckets == transactions_by_month(ts, YearOf(ts[1].date))
         IN  IF SumLen(buckets, DOMAIN buckets) = Len(ts)
             THEN [result |-> "returned", buckets |-> buckets]
             ELSE [result |-> "AssertionError", buckets |-> EmptyMap]

\* ---------------------------------------- functions called on a list
BatchDates == {Date(2021, 1, 1), Date(2021, 2, 1), Date(2022, 1, 1)}

BatchRows ==
    [date : BatchDates, description : {<<"c">>, <<"d">>}, amount : {5},
     balance : {5}]

\* lists of transactions without ids
BatchInputs ==
    {[i \in 1..Len(file) |-> RowTransaction(file[i], FileYear, FileName)] :
        file \in SeqsUpTo(BatchRows, MaxBatch)}

InitBatch ==
    /\ kind = "none"
    /\ rows = <<>>
    /\ statement = NoStatement
    /\ transactions \in BatchInputs
    /\ result = "none"
    /\ runs = 0
    /\ store = <<>>
    /\ ResolutionIdle

\* _generate_transaction_ids(transactions): the ids are set on the objects
\* of the list handed in
CallGenerateTransactionIds ==
    /\ LET out == generate_transaction_ids(transactions)
       IN  /\ call' = [op |-> "_generate_transaction_ids", key |-> transactions,
                       result |-> out.result]
           /\ transactions' = out.transactions
    /\ UNCHANGED <<kind, rows, statement, result, runs, store>>
    /\ UNCHANGED <<do_prompt, batch, idx, rpc, table, config, tableFile,
                   configFile, options, prompted, hintCalls, lastInput>>

\* analytics.split_transactions_by_month(transactions)
CallSplitTransactionsByMonth ==
    /\ LET out == split_transactions_by_month(transactions)
       IN  call' = [op |-> "split_transactions_by_month", key |-> transactions,
                    result |-> out.result, buckets |-> out.buckets]
    /\ UNCHANGED idVars
    /\ UNCHANGED <<do_prompt, batch, idx, rpc, table, config, tableFile,
                   configFile, options, prompted, hintCalls, lastInput>>

NextBatch ==
    \/ CallGenerateTransactionIds
    \/ CallSplitTransactionsByMonth

SpecBatch == InitBatch /\ [][NextBatch]_vars

\* ------------------------------------------------------- database.write
\* the stored rows but the one of an id
WithoutId(stored, id) ==
    LET Other(row) == row.id # id IN SelectSeq(stored, Other)

\* wrong: a table without primary key takes every row
InsertRowPlain(stored, t, do_overwrite) ==
    Append(stored, t)

\* insert or {policy} of one row; the id column is the primary key: ignore
\* leaves a stored row of this id, replace deletes it and inserts the new row
InsertRow(stored, t, do_overwrite) ==
    IF \E i \in 1..Len(stored) : stored[i].id = t.id
    THEN IF do_overwrite THEN Append(WithoutId(stored, t.id), t) ELSE stored
    ELSE Append(stored, t)

RECURSIVE executemany(_, _, _)
executemany(stored, ts, do_overwrite) ==
    IF Len(ts) = 0 THEN stored
    ELSE executemany(InsertRow(stored, Head(ts), do_overwrite), Tail(ts),
                     do_overwrite)

\* write(user, transactions, do_overwrite): only transactions with an id
write(stored, ts, do_overwrite) ==
    IF \E i \in 1..Len(ts) : Len(ts[i].id) = 0
    THEN [store |-> stored, result |-> "RuntimeError"]
    ELSE [store |-> executemany(stored, ts, do_overwrite), result |-> "returned"]

\* the rows of the bank's export
StoreDates == {Date(2021, 1, 1), Date(2021, 1, 2), Date(2021, 1, 3)}

StoreRows ==
    [date : StoreDates, description : {<<"c">>}, amount : {5}, balance : {5}]

\* the categories a stored transaction is updated to
UpdateCategories == {"Bank", "Food"}

InitStore ==
    /\ kind = "csv"
    /\ rows \in SeqsUpTo(StoreRows, MaxBatch - 1)
    /\ statement = NoStatement
    /\ transactions = <<>>
    /\ result = "none"
    /\ runs = 0
    /\ store = <<>>
    /\ ResolutionIdle

\* the bank's export of a later day: the rows so far and one row of a
\* strictly later date, at the end of a file that is oldest first and at the
\* front of a file that is newest first
AppendRows ==
    /\ Len(rows) > 0
    /\ Len(rows) < MaxBatch
    /\ \E row \in StoreRows :
        /\ \A i \in 1..Len(rows) : DateGt(row.date, rows[i].date)
        /\ rows' = IF DateGt(rows[1].date, rows[Len(rows)].date)
                   THEN <<row>> \o rows ELSE Append(rows, row)
    /\ UNCHANGED <<kind, statement, transactions, result, runs, store>>
    /\ UNCHANGED resVars

\* CLI.do_import_bank_history: parse, write with the default policy, then
\* the statistics of split_transactions_by_month
ImportBankHistory ==
    /\ runs < MaxCalls
    /\ LET out == parse_csv(rows, FileYear, FileName)
           written == write(store, out.transactions, FALSE)
       IN  /\ transactions' = out.transactions
           /\ store' = IF out.result = "returned" THEN written.store ELSE store
           /\ result' = IF out.result # "returned" THEN out.result
                        ELSE IF written.result # "returned" THEN written.result
                        ELSE split_transactions_by_month(out.transactions).result
           /\ call' = [op |-> "do_import_bank_history", key |-> rows,
                       parsed |-> out.result,
                       inserted |-> Len(store') - Len(store)]
    /\ runs' = runs + 1
    /\ UNCHANGED <<kind, rows, statement>>
    /\ UNCHANGED <<do_prompt, batch, idx, rpc, table, config, tableFile,
                   configFile, options, prompted, hintCalls, lastInput>>

\* database.write of a stored transaction with a category, as the category
\* updates do
Write ==
    /\ runs < MaxCalls
    /\ \E i \in 1..Len(store), category \in UpdateCategories, do_overwrite \in BOOLEAN :
        LET t == [store[i] EXCEPT !.category = category]
            written == write(store, <<t>>, do_overwrite)
        IN  /\ store' = written.store
            /\ result' = written.result
            /\ call' = [op |-> "write", key |-> <<t>>,
                        do_overwrite |-> do_overwrite]
    /\ runs' = runs + 1
    /\ UNCHANGED <<kind, rows, statement, transactions>>
    /\ UNCHANGED <<do_prompt, batch, idx, rpc, table, config, tableFile,
                   configFile, options, prompted, hintCalls, lastInput>>

NextStore ==
    \/ AppendRows
    \/ ImportBankHistory
    \/ Write

SpecStore == InitStore /\ [][NextStore]_vars

\* ------------------------------------------------ actions of the import
InitCsv ==
    /\ kind = "csv"
    /\ rows \in SeqsUpTo(CsvRows, MaxBatch)
    /\ statement = NoStatement

InitOfx ==
    /\ kind = "ofx"
    /\ rows = <<>>
    /\ statement \in OfxStatements

Init ==
    /\ InitCsv \/ InitOfx
    /\ transactions = <<>>
    /\ result = "none"
    /\ runs = 0
    /\ store = <<>>
    /\ ResolutionIdle

\* bank_history_parser.parse of a .csv file
ParseCsv ==
    /\ kind = "csv"
    /\ runs < MaxRuns
    /\ LET out == parse_csv(rows, FileYear, FileName)
       IN  /\ transactions' = out.transactions
           /\ result' = out.result
    /\ runs' = runs + 1
    /\ UNCHANGED <<kind, rows, statement, store>>
    /\ UNCHANGED resVars

\* _generate_transaction_ids run again on the batch it returned
GenerateTransactionIds ==
    /\ kind = "csv"
    /\ result = "returned"
    /\ runs < MaxRuns
    /\ LET out == generate_transaction_ids(transactions)
       IN  /\ transactions' = out.transactions
           /\ result' = out.result
    /\ runs' = runs + 1
    /\ UNCHANGED <<kind, rows, statement, store>>
    /\ UNCHANGED resVars

\* bank_history_parser.parse of an .ofx file
ParseOfx ==
    /\ kind = "ofx"
    /\ runs < MaxRuns
    /\ transactions' = bank_parse_ofx(statement, FileYear, FileName)
    /\ result' = "returned"
    /\ runs' = runs + 1
    /\ UNCHANGED <<kind, rows, statement, store>>
    /\ UNCHANGED resVars

Next ==
    \/ ParseCsv
    \/ GenerateTransactionIds
    \/ ParseOfx

Spec == Init /\ [][Next]_vars

\* =================================================================== claims
\* the engine was called on the list now in `transactions`
EngineCalled ==
    kind = "csv" /\ result \in {"returned", "AssertionError"}

\* ascending by date string
DateSorted(ts) ==
    \A i, j \in 1..Len(ts) : i < j => ~DateGt(ts[i].date, ts[j].date)

PairwiseDistinctIds(ts) ==
    \A i, j \in 1..Len(ts) : i # j => ts[i].id # ts[j].id

\* equal in date, description, category, amount, tags and balance
SameVisibleFields(a, b) ==
    [a EXCEPT !.id = <<>>] = [b EXCEPT !.id = <<>>]

\* C1: on a non-empty, date-sorted, single-year batch _generate_transaction_ids
\* returns, and the ids of the batch are pairwise distinct, duplicates of one
\* same-day run included.
C1_SortedBatchIdsDistinct ==
    (EngineCalled /\ Len(transactions) > 0 /\ DateSorted(transactions))
        => /\ result = "returned"
           /\ PairwiseDistinctIds(transactions)
           /\ Cardinality(Ids(transactions)) = Len(transactions)

C1_Witness ==
    /\ EngineCalled /\ result = "returned" /\ DateSorted(transactions)
    /\ Len(transactions) = 3
    /\ transactions[1].date = transactions[3].date
    /\ SameVisibleFields(transactions[1], transactions[3])
    /\ ~SameVisibleFields(transactions[1], transactions[2])
    /\ transactions[1].id # transactions[3].id

\* C2: a further run on the same input (the engine on the batch it returned,
\* or the import of the same file) ends as the first one did and leaves every
\* position with the id it had.
C2_RerunKeepsIds ==
    [][runs >= 1 => (result' = result /\ transactions' = transactions)]_vars

C2_Witness ==
    /\ runs >= 2 /\ kind = "csv" /\ result = "returned"
    /\ Len(transactions) >= 2
    /\ transactions[1].date = transactions[2].date

\* the last position holding the date of position i
LastOfDate(ts, i) ==
    CHOOSE j \in i..Len(ts) :
        /\ ts[j].date = ts[i].date
        /\ \A k \in (j + 1)..Len(ts) : ts[k].date # ts[i].date

\* C3: in a date-sorted batch the id of position i is the digest of exactly
\* the transactions from i to the last one of i's date, in batch order.
C3_IdIsDigestOfForwardRun ==
    (EngineCalled /\ DateSorted(transactions))
        => \A i \in 1..Len(transactions) :
             transactions[i].id =
                 Md5(Updates(SubSeq(transactions, i, LastOfDate(transactions, i))))

\* a same-day run of 3: chains of length 3, 2, 1
C3_Witness ==
    /\ EngineCalled /\ DateSorted(transactions) /\ Len(transactions) = 3
    /\ transactions[1].date = transactions[3].date
    /\ transactions[1].id = Md5(Updates(transactions))
    /\ transactions[2].id = Md5(Updates(Tail(transactions)))
    /\ transactions[3].id = Md5(Str(transactions[3]))

\* the rows of the file as the engine received them, ids aside
SameBatchAsFile ==
    LET parsed == [i \in 1..Len(rows) |-> RowTransaction(rows[i], FileYear, FileName)]
        noIds == [i \in 1..Len(transactions) |-> [transactions[i] EXCEPT !.id = <<>>]]
    IN  noIds = parsed \/ noIds = Reversed(parsed)

\* C4: a batch in which two transactions get one digest is not returned (the
\* call ends in the assertion failure); a returned batch has pairwise
\* distinct ids and holds every transaction of the input.
C4_CollisionIsAssertionFailure ==
    /\ (EngineCalled /\ ~PairwiseDistinctIds(transactions))
           => result = "AssertionError"
    /\ (kind = "csv" /\ result = "returned")
           => PairwiseDistinctIds(transactions) /\ SameBatchAsFile

\* two equal transactions of one date, separated by one of another date
C4_Witness ==
    /\ kind = "csv" /\ result = "AssertionError"
    /\ Len(transactions) = 3
    /\ ~DateSorted(transactions)
    /\ SameVisibleFields(transactions[1], transactions[3])
    /\ transactions[1].date # transactions[2].date
    /\ transactions[1].id = transactions[3].id

\* the raw OFX transactions that the import keeps, in file order
OfxKept ==
    SelectSeq(statement.transactions,
              LAMBDA r : /\ Strip(r.name) \notin IGNORED_TRANSACTION_KEYS
                         /\ YearOf(r.date) = FileYear)

\* REFNUM when present, FITID otherwise
SourceId(r) ==
    IF r.refnum # <<>> THEN r.refnum ELSE r.fitid

\* equal in date, description, category, amount and tags
SameOfxVisibleFields(a, b) ==
    /\ a.date = b.date /\ a.description = b.description
    /\ a.category = b.category /\ a.amount = b.amount /\ a.tags = b.tags

OfxReturned ==
    kind = "ofx" /\ result = "returned"

\* C5: the id of an OFX transaction is the digest of its content (as it is
\* when hashed, the balance still 0.0) followed by its source id, REFNUM when
\* present and FITID otherwise; equal transactions with different source ids
\* get different ids.
C5_OfxIdIsSaltedDigest ==
    OfxReturned =>
        /\ Len(transactions) = Len(OfxKept)
        /\ \A i \in 1..Len(transactions) :
              transactions[i].id =
                  Md5(Str([transactions[i] EXCEPT !.balance = 0])
                        \o SourceId(OfxKept[i]))
        /\ \A i, j \in 1..Len(transactions) :
              (/\ SameOfxVisibleFields(transactions[i], transactions[j])
               /\ SourceId(OfxKept[i]) # SourceId(OfxKept[j]))
                  => transactions[i].id # transactions[j].id

\* two kept transactions, equal but for the source id, one with a REFNUM
C5_Witness ==
    /\ OfxReturned /\ Len(transactions) = 2
    /\ SameOfxVisibleFields(transactions[1], transactions[2])
    /\ OfxKept[1].refnum # <<>> /\ OfxKept[2].refnum = <<>>
    /\ OfxKept[1].fitid = OfxKept[2].fitid
    /\ transactions[1].id # transactions[2].id

\* C6: the ids of every batch an OFX import returns are pairwise distinct.
C6_OfxIdsDistinct ==
    OfxReturned => PairwiseDistinctIds(transactions)

\* ----------------------------------------------------- C7: what the hash covers
Fields == {"date", "description", "category", "amount", "tags", "balance"}

AltValues(f) ==
    CASE f = "date" -> {Date(2021, 1, 1), Date(2021, 1, 2)}
      [] f = "description" -> {<<"a", " ", "b">>, <<"c">>}
      [] f = "category" -> {"Bank", "Unknown"}
      [] f = "amount" -> {5, -5}
      [] f = "tags" -> {<<FileYear, FileName>>, <<FileYear>>}
      [] f = "balance" -> {0, 5}

\* CSV: the batch with field f of position i changed gives position i another id
CsvCovers(f) ==
    (kind = "csv" /\ result = "returned") =>
        \A i \in 1..Len(transactions) : \A v \in AltValues(f) :
            v # transactions[i][f] =>
                generate_transaction_ids([transactions EXCEPT ![i][f] = v])
                    .transactions[i].id # transactions[i].id

\* the raw field that becomes field f of an OFX transaction
RawField(f) ==
    CASE f = "date" -> "date" [] f = "description" -> "name" [] f = "amount" -> "trnamt"

\* position in the file of the i-th kept transaction
RECURSIVE FilePosition(_, _)
FilePosition(i, p) ==
    IF /\ Strip(statement.transactions[p].name) \notin IGNORED_TRANSACTION_KEYS
       /\ YearOf(statement.transactions[p].date) = FileYear
    THEN (IF i = 1 THEN p ELSE FilePosition(i - 1, p + 1))
    ELSE FilePosition(i, p + 1)

\* the import of the file with raw field f of the i-th kept transaction changed
OfxAltRaw(i, f, v) ==
    bank_parse_ofx([statement EXCEPT
                       !.transactions[FilePosition(i, 1)][RawField(f)] = v],
                   FileYear, FileName)

\* the import of the file under another category or other tags
OfxImportedAs(c, tg) ==
    SelectSeq(parse_ofx(statement, c, tg), LAMBDA t : YearOf(t.date) = FileYear)

\* OFX: a file that differs in date, description or amount of one kept
\* transaction, or an import under another category or other tags, gives
\* that transaction another id
OfxCoversContent ==
    OfxReturned =>
        \A i \in 1..Len(transactions) :
            /\ \A f \in {"date", "description", "amount"} : \A v \in AltValues(f) :
                  v # transactions[i][f] => OfxAltRaw(i, f, v)[i].id # transactions[i].id
            /\ \A c \in AltValues("category") :
                  c # transactions[i].category =>
                      OfxImportedAs(c, <<FileYear, FileName>>)[i].id
                          # transactions[i].id
            /\ \A tg \in AltValues("tags") :
                  tg # transactions[i].tags =>
                      OfxImportedAs("Bank", tg)[i].id # transactions[i].id

AltBalances == {<<>>, <<7>>, <<9>>}

\* the import of the file with another available balance
OfxAltBalance(b) ==
    bank_parse_ofx([statement EXCEPT !.availbal = b], FileYear, FileName)

\* OFX: a file that differs in the balance alone gives a transaction whose
\* balance differs another id
OfxCoversBalance ==
    OfxReturned =>
        \A i \in 1..Len(transactions) : \A b \in AltBalances :
            OfxAltBalance(b)[i].balance # transactions[i].balance
                => OfxAltBalance(b)[i].id # transactions[i].id

\* OFX: the balance has no part in the id
OfxIgnoresBalance ==
    OfxReturned =>
        \A i \in 1..Len(transactions) : \A b \in AltBalances :
            OfxAltBalance(b)[i].id = transactions[i].id

\* the id a transaction holds before the hash has no part in the content
\* bytes, and a batch whose ids are already set gets the same ids
IdNotHashed ==
    /\ \A i \in 1..Len(transactions) :
          Str(transactions[i]) = Str([transactions[i] EXCEPT !.id = <<"x">>])
    /\ (kind = "csv" /\ result = "returned") =>
          generate_transaction_ids(
              [i \in 1..Len(transactions) |-> [transactions[i] EXCEPT !.id = <<"x">>]])
                  .transactions = transactions

\* C7 as claimed: the hash covers date, description, category, amount, tags
\* and balance, in a CSV import and in an OFX import alike, and never the id.
C7_HashCoversEveryFieldButId ==
    /\ \A f \in Fields : CsvCovers(f)
    /\ OfxCoversContent
    /\ OfxCoversBalance
    /\ IdNotHashed

\* C7 amended: in a CSV import the hash covers all six fields; in an OFX
\* import it covers date, description, category, amount and tags but not the
\* balance, which is assigned after the id is computed; the id held before
\* is never part of the content bytes.
C7_HashCoversFieldsCsvAndOfxButBalance ==
    /\ \A f \in Fields : CsvCovers(f)
    /\ OfxCoversContent
    /\ OfxIgnoresBalance
    /\ IdNotHashed

\* an OFX batch with balances set; another available balance changes them
C7_Witness ==
    /\ OfxReturned /\ Len(transactions) = 2
    /\ statement.availbal # <<>>
    /\ transactions[1].balance # transactions[2].balance
    /\ OfxAltBalance(<<9>>)[1].balance # transactions[1].balance
    /\ OfxAltBalance(<<9>>)[1].id = transactions[1].id

\* ------------------------------------------------------- claims on resolution
\* C8: a transaction whose description is a key of the Lookup Table gets the
\* table's category in that loop iteration, without a prompt and without the
\* Hint Store being consulted or changed, whatever do_prompt is.
C8_LookupHitAssignsWithoutPrompt ==
    [][(rpc = "loop" /\ idx <= Len(batch) /\ batch[idx].description \in Keys(table))
         => /\ batch' = [batch EXCEPT ![idx].category = table[batch[idx].description]]
            /\ rpc' = "loop" /\ idx' = idx + 1
            /\ prompted' = prompted /\ hintCalls' = hintCalls
            /\ config' = config /\ configFile' = configFile
            /\ table' = table]_vars

\* interactive mode, first transaction resolved from the table, hints at hand
C8_Witness ==
    /\ do_prompt /\ rpc = "loop" /\ idx = 2
    /\ batch[1].description \in Keys(table)
    /\ batch[1].category = "Groceries"
    /\ hint(config, batch[1].description) # <<>>
    /\ prompted = {} /\ hintCalls = {}

\* C9: with do_prompt false no step shows a prompt or consults the hints,
\* the contents of both tables and of both files stay what they were, and a
\* transaction that is Unknown and has no Lookup Table match stays Unknown.
C9_NonInteractiveNeverPromptsNorLearns ==
    [][~do_prompt
         => /\ rpc' # "prompt" /\ prompted' = {} /\ hintCalls' = {}
            /\ LoadFile(tableFile') = LoadFile(tableFile)
            /\ LoadFile(configFile') = LoadFile(configFile)
            /\ rpc # "start" => (table' = table /\ config' = config)
            /\ \A p \in 1..Len(batch) :
                  (/\ batch[p].category = "Unknown"
                   /\ batch[p].description \notin Keys(LoadFile(tableFile)))
                      => batch'[p].category = "Unknown"]_vars

\* a returned non-interactive call: one transaction resolved from the table,
\* one left Unknown although a hint exists for it
C9_Witness ==
    /\ ~do_prompt /\ rpc = "returned" /\ Len(batch) = 2
    /\ batch[1].category = "Unknown"
    /\ batch[1].description \notin Keys(table)
    /\ hint(config, batch[1].description) # <<>>
    /\ batch[2].category = "Groceries"
    /\ prompted = {}
    /\ tableFile = FileOf(table) /\ configFile = FileOf(config)

\* the line typed selects the skip option, options[0]
SelectsSkip(text) ==
    /\ ~IntFails(text)
    /\ ListIndex(Len(options), IntOf(text)) = 1

\* C10: when the user selects the skip option the transaction's category is
\* Unknown afterwards, the loop goes on, and neither table (nor its file)
\* gains or changes an entry.
C10_SkipLeavesUnknownAndTables ==
    [][(rpc = "prompt" /\ SelectsSkip(lastInput'))
         => /\ batch' = [batch EXCEPT ![idx].category = "Unknown"]
            /\ rpc' = "loop" /\ idx' = idx + 1
            /\ table' = table /\ config' = config
            /\ tableFile' = tableFile /\ configFile' = configFile]_vars

\* a prompted Unknown transaction with a hint was skipped
C10_Witness ==
    /\ rpc = "loop" /\ idx = 2 /\ lastInput = <<"0">>
    /\ 1 \in prompted
    /\ batch[1].category = "Unknown"
    /\ batch[1].description \notin Keys(table)
    /\ hint(config, batch[1].description) # <<>>

\* the line typed selects the option at position pos (from 1) of the prompt
Selects(text, pos) ==
    /\ ~IntFails(text)
    /\ ListIndex(Len(options), IntOf(text)) = pos

\* positions of the keyword-derived options: after skip, before the categories
HintPositions ==
    2..(Len(options) - Len(Categories))

\* positions of the bare category options: the last len(Category) ones
BarePositions ==
    (Len(options) - Len(Categories) + 1)..Len(options)

\* C11: when the user selects the keyword-derived option (c, w) for the
\* transaction with description d, afterwards the Hint Store maps w to c, the
\* Lookup Table maps d to c and the transaction's category is c.
C11_HintOptionPersistsBoth ==
    [][\A pos \in HintPositions :
         (rpc = "prompt" /\ Selects(lastInput', pos))
           => LET c == options[pos][1]
                  w == options[pos][2]
                  d == batch[idx].description
              IN  /\ w \in Keys(config') /\ config'[w] = c
                  /\ d \in Keys(table') /\ table'[d] = c
                  /\ batch'[idx].category = c]_vars

\* C12: selecting any bare category option of the prompt stores d -> that
\* category in the Lookup Table, assigns it to the transaction, raises no
\* error (the loop goes on) and leaves the Hint Store unchanged.
C12_BareOptionStoresDescriptionOnly ==
    [][\A pos \in BarePositions :
         (rpc = "prompt" /\ Selects(lastInput', pos))
           => LET c == options[pos][1]
                  d == batch[idx].description
              IN  /\ table' = MapStore(table, d, c)
                  /\ batch'[idx].category = c
                  /\ rpc' = "loop"
                  /\ config' = config /\ configFile' = configFile]_vars

\* the line typed is not the index of a presented option
NotAnIndex(text) ==
    \/ IntFails(text)
    \/ IntOf(text) < 0
    \/ IntOf(text) >= Len(options)

\* C13: a line that is not the index of a presented option (no number, a
\* number beyond the last index, a negative number) changes no table and no
\* transaction, and the same prompt is shown again.
C13_InvalidInputReprompts ==
    [][(rpc = "prompt" /\ rpc' # "KeyboardInterrupt" /\ NotAnIndex(lastInput'))
         => /\ rpc' = "prompt" /\ options' = options /\ idx' = idx
            /\ batch' = batch
            /\ table' = table /\ config' = config
            /\ tableFile' = tableFile /\ configFile' = configFile]_vars

\* descriptions of the transactions before position i that a prompt of this
\* call gave a category
ResolvedBefore(i) ==
    {batch[p].description :
        p \in {q \in prompted : q < i /\ batch[q].category # "Unknown"}}

Exits ==
    {"returned", "KeyboardInterrupt", "IndexError", "RuntimeError"}

\* C15: however the session ended (return, exception raised inside it,
\* interruption of the prompt), the file of each table is the dump of the
\* table as it was at exit, and loading it gives that table back.
C15_EveryExitFlushesBothTables ==
    rpc \in Exits
        => /\ tableFile = Flush(table) /\ configFile = Flush(config)
           /\ LoadFile(tableFile) = table /\ LoadFile(configFile) = config

\* a session that ended with an exception after an entry was learned
C15_Witness ==
    /\ rpc = "IndexError" /\ idx = 2 /\ 1 \in prompted
    /\ batch[1].description \in Keys(table)
    /\ tableFile = FileOf(table) /\ tableFile.data.kind = "block"
    /\ configFile = FileOf(config)

\* C16: a transaction whose category is not Unknown keeps its category and
\* is not prompted for, also when its description is a key of the table.
C16_OnlyUnknownIsResolved ==
    [][\A p \in 1..Len(batch) :
          batch[p].category # "Unknown"
            => /\ batch'[p].category = batch[p].category
               /\ (p \in prompted' <=> p \in prompted)]_vars

\* the distinct valid words of a description that are keys of the config
HintedWords(cfg, description) ==
    {split_description(description)[i] :
        i \in 1..Len(split_description(description))} \cap Keys(cfg)

\* C17: the options of a prompt are: skip at index 0; then one option per
\* distinct hinted keyword, labelled with the category the Hint Store maps it
\* to; then the 17 categories in enumeration order: 1 + h + 17 options.
C17_PromptOptionsLayout ==
    rpc = "prompt"
        => LET words == HintedWords(config, batch[idx].description)
               h == Cardinality(words)
           IN  /\ Len(options) = 1 + h + 17
               /\ options[1] = <<"Unknown", SKIP_KEYWORD>>
               /\ \A i \in 2..(1 + h) :
                     /\ options[i][2] \in words
                     /\ options[i][1] = config[options[i][2]]
               /\ \A i, j \in 2..(1 + h) : i # j => options[i][2] # options[j][2]
               /\ \A i \in 1..17 : options[1 + h + i] = <<Categories[i], <<>>>>
               /\ Cardinality({options[1 + h + i][1] : i \in 1..17}) = 17

\* a prompt with one hint labelled Food
C17_Witness ==
    /\ rpc = "prompt"
    /\ Len(options) = 19
    /\ options[2][1] = "Food" /\ options[2][2] = <<"a", "b">>
    /\ options[3] = <<"Unknown", <<>>>>

\* ----------------------------------------------- claims on the two tables
HasWhitespace(key) ==
    \E i \in 1..Len(key) : IsSpace(key[i])

\* a step that is a direct call of store() on one of the objects
StoreCalled(op) ==
    rpc = "open" /\ rpc' = "open" /\ call'.op = op

\* C18: CategoryHinter.store raises for every key that contains a whitespace
\* character (space, tab, newline) and then leaves the Hint Store unchanged;
\* no key of the Hint Store contains whitespace.
C18_HinterStoreRejectsWhitespace ==
    [][/\ (StoreCalled("hinter.store") /\ HasWhitespace(call'.key))
           => (call'.raised /\ config' = config)
       /\ \A key \in Keys(config') : ~HasWhitespace(key)]_vars

\* C19: CategoryLookupTable.store raises for category Unknown, whatever the
\* description, and leaves the table unchanged; through store calls and a
\* resolution session no description of the table maps to Unknown.
C19_LookupTableNeverHoldsUnknown ==
    [][/\ (StoreCalled("table.store") /\ call'.category = "Unknown")
           => (call'.raised /\ table' = table)
       /\ \A d \in Keys(table') : table'[d] # "Unknown"]_vars

\* store(description, Unknown) was rejected on a table that holds an entry
C19_Witness ==
    /\ rpc = "open"
    /\ call.op = "table.store" /\ call.category = "Unknown" /\ call.raised
    /\ call.key \in Keys(table) /\ table[call.key] = "Shopping"

\* the objects are constructed in this step
Constructed ==
    \/ rpc # "open" /\ rpc' \in {"open", "reopened"}
    \/ rpc = "start" /\ rpc' = "loop"

\* C20: objects constructed on the paths of flushed tables (flushed by
\* flush() or by leaving a session) hold the mapping the flushed objects
\* held, the empty mapping included.
C20_TablesRoundTrip ==
    [][Constructed => (table' = table /\ config' = config)]_vars

\* reconstructed after a flush: a stored table, and an empty Hint Store
C20_Witness ==
    /\ rpc = "open" /\ call = NoCall
    /\ \E d \in Keys(table) : table[d] = "Shopping"
    /\ tableFile = FileOf(table)
    /\ config = EmptyMap /\ configFile.data.kind = "flow"

\* ------------------------------------------------- claims on the hinter
NotBareAmpersand(word) ==
    word # <<"&">>

\* C21: _split_description returns the tokens got by replacing every
\* character that is not alphanumeric, whitespace or '&' by a space and
\* splitting on whitespace (any whitespace character), in order, repetitions
\* kept, without the bare token '&'; each token is non-empty and made of
\* alphanumerics and '&'.
C21_SplitDescriptionTokens ==
    call.op = "_split_description"
        => /\ call.result = SelectSeq(SplitWs(Sanitize(call.key), <<>>), NotBareAmpersand)
           /\ \A i \in 1..Len(call.result) :
                 /\ Len(call.result[i]) > 0
                 /\ \A j \in 1..Len(call.result[i]) :
                       IsAlnum(call.result[i][j]) \/ call.result[i][j] = "&"

C23_DryRunPersistsNothing ==
    [][/\ (call'.op = "build_hints" /\ call' # call /\ ~call'.do_flush)
            => LoadFile(configFile') = LoadFile(configFile)
       /\ (call.op = "build_hints" /\ ~call.do_flush /\ rpc = "open" /\ rpc' = "closed")
            => LoadFile(configFile') = LoadFile(configFile)]_vars

\* the tokens build_hints retains from the descriptions of a map
RetainedTokens(items, nouns) ==
    {word \in UNION {{split_description(items[i][1])[j] :
                        j \in 1..Len(split_description(items[i][1]))} :
                     i \in 1..Len(items)} :
        Len(word) > 1 /\ word \in nouns}

\* the category of the last description of the map that has the token
LastCategory(items, word) ==
    LET holders == {i \in 1..Len(items) :
                       \E j \in 1..Len(split_description(items[i][1])) :
                           split_description(items[i][1])[j] = word}
        last == CHOOSE i \in holders : \A k \in holders : k <= i
    IN  items[last][2]

\* C24: build_hints with flush true persists a store whose keys are the
\* previous keys and the retained tokens (longer than one character, tagged
\* as nouns); a previous key that is no retained token keeps its category, a
\* retained token takes the category of the last description that has it;
\* the reported number of new hints counts the retained tokens that were no
\* key before.
C24_BuildHintsMerges ==
    [][(call'.op = "build_hints" /\ call' # call /\ call'.do_flush)
         => LET retained == RetainedTokens(call'.key, call'.nouns)
                persisted == LoadFile(configFile')
            IN  /\ Keys(persisted) = Keys(config) \cup retained
                /\ \A k \in Keys(config) \ retained : persisted[k] = config[k]
                /\ \A k \in retained : persisted[k] = LastCategory(call'.key, k)
                /\ call'.n = Cardinality(retained \ Keys(config))]_vars

\* ab was Food and is now Home from the later of two descriptions, cd is
\* new, the one-letter noun c is left out
C24_Witness ==
    /\ call.op = "build_hints"
    /\ call.do_flush
    /\ Len(call.key) = 2
    /\ call.key[1][2] = "Gas"
    /\ <<"c">> \in call.nouns
    /\ call.n = 1
    /\ Keys(LoadFile(configFile)) = {<<"a", "b">>, <<"c", "d">>}
    /\ LoadFile(configFile)[<<"a", "b">>] = "Home"

\* ------------------------------------------- claims on lists and the store
\* C25: the Identity Engine rejects an input sequence of length 0 with an
\* error at the call that received it; it does not return an empty batch.
C25_EngineRejectsEmptyInput ==
    (call.op = "_generate_transaction_ids" /\ Len(call.key) = 0)
        => call.result # "returned"

MultiYear(file) ==
    \E i \in 1..Len(file) : file[i].date.year # file[1].date.year

\* C26: a CSV batch in which a transaction's year differs from the year of
\* the first transaction is rejected with an error before any id is
\* generated: no batch is returned and no transaction carries a generated id.
C26_MultiYearRejectedBeforeIds ==
    (kind = "csv" /\ runs > 0 /\ MultiYear(rows))
        => /\ result = "NotImplementedError"
           /\ \A i \in 1..Len(transactions) : transactions[i].id = <<>>

\* a file of three rows, newest first, the newest of another year
C26_Witness ==
    /\ kind = "csv"
    /\ runs > 0
    /\ Len(rows) = MaxBatch
    /\ rows[1].date.year > rows[Len(rows)].date.year
    /\ result = "NotImplementedError"
    /\ Len(transactions) = Len(rows)

\* the transactions of a list that are of month ii, in the order of the list
OfMonth(ts, ii) ==
    LET InMonth(t) == t.date.month = ii IN SelectSeq(ts, InMonth)

\* C30: for every non-empty list of transactions of one year,
\* split_transactions_by_month returns buckets that together hold every
\* transaction exactly once (the accounting assertion never fails), each
\* bucket holding the transactions of its month in input order; an empty
\* list and a list spanning two years are rejected with ValueError.
C30_MonthBucketsPartitionInput ==
    call.op = "split_transactions_by_month"
        => IF Len(call.key) = 0 \/ ~SingleYear(call.key)
           THEN call.result = "ValueError"
           ELSE /\ call.result = "returned"
                /\ \A ii \in 1..Len(MonthNames) :
                      IF OfMonth(call.key, ii) = <<>>
                      THEN MonthNames[ii] \notin DOMAIN call.buckets
                      ELSE /\ MonthNames[ii] \in DOMAIN call.buckets
                           /\ call.buckets[MonthNames[ii]] = OfMonth(call.key, ii)

StoreIds(stored) ==
    {stored[i].id : i \in 1..Len(stored)}

StoredRow(stored, id) ==
    stored[CHOOSE i \in 1..Len(stored) : stored[i].id = id]

\* C27: in the persisted transaction store there is at most one row per id
\* after any sequence of writes; a default write of a transaction whose id is
\* stored leaves the stored row unchanged and adds no row; a write with
\* do_overwrite true replaces the stored row of that id with the written
\* transaction.
C27_OneRowPerId ==
    [][/\ Cardinality(StoreIds(store')) = Len(store')
       /\ (call'.op = "write" /\ runs' # runs
             /\ call'.key[1].id \in StoreIds(store))
            => IF call'.do_overwrite
               THEN /\ StoredRow(store', call'.key[1].id) = call'.key[1]
                    /\ Len(store') = Len(store)
                    /\ \A id \in StoreIds(store) \ {call'.key[1].id} :
                          StoredRow(store', id) = StoredRow(store, id)
               ELSE store' = store]_vars

\* a default write of the Bank transaction after its stored row was
\* overwritten with Food: the row is still Food
C27_Witness ==
    /\ call.op = "write"
    /\ ~call.do_overwrite
    /\ call.key[1].category = "Bank"
    /\ Len(store) > 1
    /\ StoredRow(store, call.key[1].id).category = "Food"

\* the batch B held in transactions is what the store holds
Imported ==
    /\ Len(transactions) > 0
    /\ Len(store) = Len(transactions)
    /\ StoreIds(store) = Ids(transactions)

\* C29: when batch B was imported and then a batch B' that is B followed
\* only by transactions of strictly later dates, every transaction of B gets
\* in B' the id it had in B, the default write adds rows only for the
\* appended transactions and the store holds no transaction of B twice.
C29_ReimportKeepsIds ==
    [][(call'.op = "do_import_bank_history" /\ runs' # runs
          /\ call'.parsed = "returned" /\ Imported)
         => /\ \A i \in 1..Len(transactions) :
                  transactions'[i].id = transactions[i].id
            /\ call'.inserted = Len(transactions') - Len(transactions)
            /\ Len(store') = Len(transactions')
            /\ StoreIds(store') = Ids(transactions')]_vars

\* the second import of a file that got one more row: one row inserted
C29_Witness ==
    /\ call.op = "do_import_bank_history"
    /\ call.parsed = "returned"
    /\ runs > 1
    /\ call.inserted = 1
    /\ Len(store) > 1
    /\ Len(store) = Len(rows)

\* the earlier positions with the description of position i at which a
\* prompt of this call ended with a category (a choice other than skip)
ChosenBefore(i) ==
    {p \in prompted : /\ p < i
                      /\ batch[p].description = batch[i].description
                      /\ batch[p].category # "Unknown"}

\* the earlier positions with the description of position i that were skipped
SkippedBefore(i) ==
    {p \in prompted : /\ p < i
                      /\ batch[p].description = batch[i].description
                      /\ batch[p].category = "Unknown"}

\* C28: within one interactive call, once the user has chosen a non-skip
\* option for a transaction with description d, every later transaction with
\* description d gets that category from the Lookup Table without a prompt;
\* after a skip for d, a later transaction with description d is prompted
\* again.
C28_ChoiceServesLaterSameDescription ==
    [][(rpc = "loop" /\ idx <= Len(batch) /\ do_prompt /\ <<idx, rpc>>' # <<idx, rpc>>)
         => /\ ChosenBefore(idx) # {}
                => LET last == CHOOSE p \in ChosenBefore(idx) :
                                  \A q \in ChosenBefore(idx) : q <= p
                   IN  /\ rpc' = "loop"
                       /\ idx \notin prompted'
                       /\ batch[idx].description \in Keys(table)
                       /\ batch'[idx].category = batch[last].category
            /\ (ChosenBefore(idx) = {} /\ SkippedBefore(idx) # {})
                => rpc' = "prompt" /\ idx \in prompted']_vars
====
